---- MODULE Spec2Model ----
(***************************************************************************)
(* IIO sensor daemon (src/src/IIOMain.cpp): discovery of IIO devices,      *)
(* matching against entity-manager configuration records, reconciliation   *)
(* of the sensor table, and the debounce timer that triggers rescans.      *)
(*                                                                         *)
(* Strings whose characters matter (device directory names, sensor names,  *)
(* object paths) are sequences of one-character strings, so that           *)
(* std::stoi, std::string::find and boost::ends_with are computed.         *)
(*                                                                         *)
(* Time is counted in ticks, TicksPerSecond to the second.  The timer      *)
(* state is kept relative to the clock (remaining ticks until expiry),     *)
(* which is all the program can observe.                                   *)
(***************************************************************************)
EXTENDS Integers, Sequences, FiniteSets, TLC

\* ------------------------------------------------------------------ bounds

\* Ticks of the model clock per second (resolution of time).
TicksPerSecond == 2
\* Number of PropertiesChanged messages delivered in one behaviour.
MaxNotify == 2
\* Number of device files that may appear after start-up.
MaxHotplug == 1
\* Number of device files and records that may disappear after start-up.
MaxRemoval == 1

\* --------------------------------------------------------- program constants

\* boost::posix_time::seconds(1): the period the filter timer is armed with.
filterSeconds == 1
\* std::array<const char*, 13> sensorTypes: the declared size of the array.
sensorTypesSize == 13
\* Largest value of int: std::stoi throws std::out_of_range beyond it.
IntMax == 2147483647

\* Ticks the filter timer runs for once armed.
QuietTicks == filterSeconds * TicksPerSecond

\* The two initialised entries of sensorTypes, in array order; the other
\* sensorTypesSize - 2 entries are value-initialised to nullptr.
sensorTypes == <<"DPS310", "SI7020">>

\* ------------------------------------------------------------------ strings

\* Character codes (ASCII) of the characters used, for std::string ordering.
CharCode(c) ==
    CASE c = " " -> 32 [] c = "+" -> 43 [] c = "-" -> 45 [] c = "/" -> 47
      [] c = "0" -> 48 [] c = "1" -> 49 [] c = "2" -> 50 [] c = "3" -> 51
      [] c = "4" -> 52 [] c = "5" -> 53 [] c = "6" -> 54 [] c = "7" -> 55
      [] c = "8" -> 56 [] c = "9" -> 57
      [] c = "A" -> 65 [] c = "B" -> 66 [] c = "X" -> 88
      [] c = "a" -> 97 [] c = "b" -> 98 [] c = "c" -> 99 [] c = "d" -> 100
      [] c = "e" -> 101 [] c = "f" -> 102 [] c = "i" -> 105 [] c = "o" -> 111
      [] c = "x" -> 120 [] c = "z" -> 122
      [] OTHER -> 63

\* std::string operator< : lexicographic comparison by character code.
RECURSIVE StrLessFrom(_, _, _)
StrLessFrom(s, t, i) ==
    IF i > Len(t) THEN FALSE
    ELSE IF i > Len(s) THEN TRUE
    ELSE IF CharCode(s[i]) < CharCode(t[i]) THEN TRUE
    ELSE IF CharCode(s[i]) > CharCode(t[i]) THEN FALSE
    ELSE StrLessFrom(s, t, i + 1)

StrLess(s, t) == StrLessFrom(s, t, 1)

\* boost::ends_with(input, test): test is a suffix of input.
EndsWith(input, test) ==
    /\ Len(test) <= Len(input)
    /\ SubSeq(input, Len(input) - Len(test) + 1, Len(input)) = test

\* std::string::find(ch): index of the first occurrence, 0 for npos.
RECURSIVE FindChar(_, _, _)
FindChar(s, ch, i) ==
    IF i > Len(s) THEN 0
    ELSE IF s[i] = ch THEN i
    ELSE FindChar(s, ch, i + 1)

\* Value of a digit character in the given base, -1 when it is none.
DigitVal(c, base) ==
    LET v == CASE c = "0" -> 0 [] c = "1" -> 1 [] c = "2" -> 2 [] c = "3" -> 3
               [] c = "4" -> 4 [] c = "5" -> 5 [] c = "6" -> 6 [] c = "7" -> 7
               [] c = "8" -> 8 [] c = "9" -> 9
               [] c \in {"a", "A"} -> 10 [] c \in {"b", "B"} -> 11
               [] c = "c" -> 12 [] c = "d" -> 13 [] c = "e" -> 14
               [] c = "f" -> 15
               [] OTHER -> -1
    IN IF v >= 0 /\ v < base THEN v ELSE -1

\* The digit loop of strtol as std::stoi uses it: digits are consumed while
\* they are digits of the base; a value beyond int is std::out_of_range.
\* Without a digit the conversion is std::invalid_argument.
RECURSIVE StoiDigits(_, _, _, _, _)
StoiDigit(s, i, base, acc, d) ==
    IF acc > (IntMax - d) \div base
    THEN [st |-> "out_of_range", v |-> 0]
    ELSE StoiDigits(s, i + 1, base, acc * base + d, TRUE)

StoiEnd(acc, any) ==
    IF any THEN [st |-> "ok", v |-> acc] ELSE [st |-> "invalid_argument", v |-> 0]

StoiDigits(s, i, base, acc, any) ==
    IF i > Len(s) THEN StoiEnd(acc, any)
    ELSE IF DigitVal(s[i], base) < 0 THEN StoiEnd(acc, any)
    ELSE StoiDigit(s, i, base, acc, DigitVal(s[i], base))

RECURSIVE SkipSpace(_, _)
SkipSpace(s, i) ==
    IF i <= Len(s) /\ s[i] = " " THEN SkipSpace(s, i + 1) ELSE i

\* For base 16 an optional 0x prefix is skipped when a hex digit follows it.
HasHexPrefix(s, base, i) ==
    /\ base = 16
    /\ i + 2 <= Len(s)
    /\ s[i] = "0"
    /\ s[i + 1] \in {"x", "X"}
    /\ DigitVal(s[i + 2], 16) >= 0

StoiUnsigned(s, base, i) ==
    StoiDigits(s, IF HasHexPrefix(s, base, i) THEN i + 2 ELSE i, base, 0, FALSE)

StoiNegate(r, neg) ==
    IF r.st = "ok" /\ neg THEN [st |-> "ok", v |-> 0 - r.v] ELSE r

\* The conversion from index i on, after the leading white space.
StoiSigned(s, base, i) ==
    IF i <= Len(s) /\ s[i] \in {"-", "+"}
    THEN StoiNegate(StoiUnsigned(s, base, i + 1), s[i] = "-")
    ELSE StoiUnsigned(s, base, i)

\* std::stoi(str, nullptr, base): leading white space, an optional sign, for
\* base 16 an optional 0x prefix, then digits; characters after the digits are
\* ignored.  The result is [st, v]: st is "ok" or the exception thrown.
stoi(s, base) == StoiSigned(s, base, SkipSpace(s, 1))

\* ------------------------------------------------------- discovered devices

\* A value-reading endpoint under /sys/bus/iio/devices:
\*   dir   the iio:deviceN directory holding the file,
\*   link  the final segment of the parent of fs::canonical(dir), e.g. 7-0076,
\*   chan  the channel word of the file name (in_<chan>_input).
File(dir, link, chan) == [dir |-> dir, link |-> link, chan |-> chan]

\* path.string(), as the sequence of its words.
PathStr(file) == <<"sys", "bus", "iio", "devices", file.dir, "in", file.chan, "input">>

\* pathStr.find(word) != npos
HasWord(pathStr, word) == \E i \in 1..Len(pathStr) : pathStr[i] = word

\* findFiles(root, pattern, paths) for the pattern of one channel word: the
\* matching files in directory order.
FindFilesOf(files, chan) ==
    LET Matches(f) == f.chan = chan IN SelectSeq(files, Matches)

\* The three findFiles calls append to one vector.
findFiles(files) ==
    FindFilesOf(files, "temp") \o FindFilesOf(files, "pressure")
        \o FindFilesOf(files, "humidity")

\* sensorTypeName: "temperature" unless the path holds pressure or humidity.
SensorTypeName(pathStr) ==
    IF HasWord(pathStr, "pressure") THEN "pressure"
    ELSE IF HasWord(pathStr, "humidity") THEN "humidity"
    ELSE "temperature"

\* The two parts of a device name converted: the bus in base 10 first,
\* then the address in base 16.
Identity(b, a) ==
    IF b.st # "ok" THEN [st |-> b.st, bus |-> 0, addr |-> 0]
    ELSE IF a.st # "ok" THEN [st |-> a.st, bus |-> 0, addr |-> 0]
    ELSE [st |-> "ok", bus |-> b.v, addr |-> a.v]

SplitAt(deviceName, findHyphen) ==
    IF findHyphen = 0 THEN [st |-> "badDevice", bus |-> 0, addr |-> 0]
    ELSE Identity(stoi(SubSeq(deviceName, 1, findHyphen - 1), 10),
                  stoi(SubSeq(deviceName, findHyphen + 1, Len(deviceName)), 16))

\* The device name split at its first hyphen and both parts converted.
\* st is "ok", "badDevice" (no hyphen), or the exception std::stoi threw.
ResolveIdentity(deviceName) == SplitAt(deviceName, FindChar(deviceName, "-", 1))

\* ---------------------------------------------------- configuration records

\* Variant values of a base-configuration map.
U64(n) == [t |-> "u64", v |-> n]
Str(s) == [t |-> "str", v |-> s]

\* One entry of ManagedObjectType: the object path and, per interface name,
\* the property map.
Record(path, data) == [path |-> path, data |-> data]

NoBase == [k |-> 0, type |-> "none"]

\* for (const char* type : sensorTypes): the first initialised entry the
\* record carries, "none" when it carries neither.
FirstType(data) ==
    IF \E i \in 1..Len(sensorTypes) : sensorTypes[i] \in DOMAIN data
    THEN sensorTypes[CHOOSE i \in 1..Len(sensorTypes) :
                        /\ sensorTypes[i] \in DOMAIN data
                        /\ \A j \in 1..(i - 1) : sensorTypes[j] \notin DOMAIN data]
    ELSE "none"

\* The loop over the records of the snapshot for one device.  base is
\* baseConfiguration, which is set when a record carries a supported type
\* and is not reset between records: [k, type] names the record and the
\* interface it points into.  The result is
\*   st    "match", "noMatch" or "bad_variant_access",
\*   k     the index of the record the loop stopped at (sensorData),
\*   base  baseConfiguration when the loop ended.
RECURSIVE MatchFrom(_, _, _, _, _)
MatchResult(st, k, base) == [st |-> st, k |-> k, base |-> base]

\* MatchMap with && for the || of lines 134-136: the loop goes on to the
\* next record only when Bus and Address both differ.
MatchMapEither(cfg, k, base, bus, addr, map) ==
    IF "Bus" \notin DOMAIN map \/ "Address" \notin DOMAIN map
    THEN MatchFrom(cfg, k + 1, base, bus, addr)
    ELSE IF map["Bus"].t # "u64" THEN MatchResult("bad_variant_access", k, base)
    ELSE IF map["Bus"].v = bus THEN MatchResult("match", k, base)
    ELSE IF map["Address"].t # "u64" THEN MatchResult("bad_variant_access", k, base)
    ELSE IF map["Address"].v # addr THEN MatchFrom(cfg, k + 1, base, bus, addr)
    ELSE MatchResult("match", k, base)

\* Lines 122-142 for record k with baseConfiguration base and its map.
MatchMap(cfg, k, base, bus, addr, map) ==
    IF "Bus" \notin DOMAIN map \/ "Address" \notin DOMAIN map
    THEN MatchFrom(cfg, k + 1, base, bus, addr)
    ELSE IF map["Bus"].t # "u64" THEN MatchResult("bad_variant_access", k, base)
    ELSE IF map["Bus"].v # bus THEN MatchFrom(cfg, k + 1, base, bus, addr)
    ELSE IF map["Address"].t # "u64" THEN MatchResult("bad_variant_access", k, base)
    ELSE IF map["Address"].v # addr THEN MatchFrom(cfg, k + 1, base, bus, addr)
    ELSE MatchResult("match", k, base)

\* Lines 116-121 for record k.
MatchBase(cfg, k, base, bus, addr) ==
    IF base = NoBase THEN MatchFrom(cfg, k + 1, base, bus, addr)
    ELSE MatchMap(cfg, k, base, bus, addr, cfg[base.k].data[base.type])

\* Lines 105-115 for record k: type is the supported type it carries.
MatchType(cfg, k, base, bus, addr, type) ==
    MatchBase(cfg, k, IF type # "none" THEN [k |-> k, type |-> type] ELSE base,
              bus, addr)

MatchFrom(cfg, k, base, bus, addr) ==
    IF k > Len(cfg) THEN MatchResult("noMatch", Len(cfg), base)
    ELSE MatchType(cfg, k, base, bus, addr, FirstType(cfg[k].data))

Match(cfg, bus, addr) == MatchFrom(cfg, 1, NoBase, bus, addr)

\* -------------------------------------------------------------- reconciler

\* An empty std::shared_ptr<IIOSensor>.
NullSensor ==
    [id |-> 0, name |-> <<>>, path |-> <<>>, type |-> "none",
     cfg |-> <<>>, kind |-> "none"]

\* The object make_shared<IIOSensor>(pathStr, sensorType, ..., sensorName, ...,
\* *interfacePath, readState, sensorTypeName) yields; id is its identity.
IIOSensor(id, pathStr, sensorType, sensorName, interfacePath, sensorTypeName) ==
    [id |-> id, name |-> sensorName, path |-> pathStr, type |-> sensorType,
     cfg |-> interfacePath, kind |-> sensorTypeName]

NoFail == <<>>

\* The entries of sensorsChanged that boost::ends_with accepts for a name.
ChangedHits(changed, name) == {p \in changed : EndsWith(p, name)}

\* The entry the loop over the flat_set reaches first: the least in
\* std::string order.
FirstHit(hits) == CHOOSE p \in hits : \A q \in hits : q = p \/ StrLess(p, q)

\* Outcomes of one iteration of the loop over the discovered paths that are
\* exceptions leaving the callback (nothing in it catches them), or a
\* dereference of an empty slot.
Throws == {"out_of_range", "bad_variant_access", "ctorThrow", "nullDeref"}

Step(file, outcome, name, before, after, ev) ==
    [file |-> file, outcome |-> outcome, name |-> name,
     before |-> before, after |-> after, ev |-> ev]

\* sensors[sensorName]: the key is inserted with an empty pointer if absent.
WithKey(sensors, name) ==
    IF name \in DOMAIN sensors THEN sensors ELSE sensors @@ (name :> NullSensor)

\* What one iteration has found out about its path: the matched record's
\* Name, the interface type baseConfiguration points into, and the record's
\* object path.
Found(sensorName, sensorType, interfacePath) ==
    [sensorName |-> sensorName, sensorType |-> sensorType,
     interfacePath |-> interfacePath]

\* Line 224-227: the new object is stored in its slot; the object the slot
\* held until then is let go by the assignment.
Install(st0, st, file, firstScan, f, ev, slots, new) ==
    Step(file, "constructed", f.sensorName, st0,
         [st EXCEPT !.sensors = [slots EXCEPT ![f.sensorName] = new],
                    !.nextId = st.nextId + 1,
                    !.notified = IF firstScan THEN st.notified
                                 ELSE st.notified \ {f.interfacePath}],
         ev \o (IF slots[f.sensorName] = NullSensor
                THEN <<"construct", "install">>
                ELSE <<"construct", "install", "release">>))

\* Lines 194-228 with the slot looked up: the constructor throws for the
\* path failing, and then the slot stays as line 223 left it.
ConstructIn(st0, st, file, firstScan, failing, f, ev, slots) ==
    IF PathStr(file) = failing
    THEN Step(file, "ctorThrow", f.sensorName, st0,
              [st EXCEPT !.sensors = slots], ev)
    ELSE Install(st0, st, file, firstScan, f, ev, slots,
                 IIOSensor(st.nextId, PathStr(file), f.sensorType, f.sensorName,
                           f.interfacePath, SensorTypeName(PathStr(file))))

\* Lines 194-228: build the sensor and store it in its slot.  st is the state
\* the iteration has reached (after any erase from sensorsChanged), st0 the
\* state the iteration started from, ev the events so far.
Construct(st0, st, file, firstScan, failing, f, ev) ==
    ConstructIn(st0, st, file, firstScan, failing, f, ev,
                WithKey(st.sensors, f.sensorName))

\* Lines 183-185: the entry is erased and the slot emptied.
Consume(st, name, entry) ==
    [st EXCEPT !.changed = st.changed \ {entry},
               !.sensors = [st.sensors EXCEPT ![name] = NullSensor]]

\* Rescan without the test of found (lines 189-192 left out): the sensor is
\* rebuilt whether or not an entry ended with its name.
RescanAlways(st, file, failing, f, hits) ==
    Construct(st,
              IF hits = {} THEN [st EXCEPT !.sensors[f.sensorName] = NullSensor]
              ELSE Consume(st, f.sensorName, FirstHit(hits)),
              file, FALSE, failing, f, <<"release">>)

\* Lines 177-193: hits are the entries ending with the stored sensor's name.
Rescan(st, file, failing, f, hits) ==
    IF hits = {} THEN Step(file, "unchanged", f.sensorName, st, st, <<>>)
    ELSE Construct(st, Consume(st, f.sensorName, FirstHit(hits)), file,
                   FALSE, failing, f, <<"release">>)

\* Lines 174-193: on a rescan, a name already in the table is rebuilt only
\* when an entry of sensorsChanged ends with the stored sensor's name.
Reconcile(st, file, firstScan, failing, f) ==
    IF firstScan \/ f.sensorName \notin DOMAIN st.sensors
    THEN Construct(st, st, file, firstScan, failing, f, <<>>)
    ELSE IF st.sensors[f.sensorName] = NullSensor
    THEN Step(file, "nullDeref", f.sensorName, st, st, <<>>)
    ELSE Rescan(st, file, failing, f,
                ChangedHits(st.changed, st.sensors[f.sensorName].name))

Skip(st, file, outcome) == Step(file, outcome, <<>>, st, st, <<>>)

\* Named with a default for a missing Name: the sensor is named after the
\* record's path instead of the device being skipped (lines 165-170 left out).
NamedByDefault(st, file, firstScan, failing, map, type, interfacePath) ==
    IF "SensorType" \notin DOMAIN map THEN Skip(st, file, "noSensorType")
    ELSE IF "Name" \notin DOMAIN map
    THEN Reconcile(st, file, firstScan, failing,
                   Found(interfacePath, type, interfacePath))
    ELSE IF map["Name"].t # "str" THEN Skip(st, file, "bad_variant_access")
    ELSE Reconcile(st, file, firstScan, failing,
                   Found(map["Name"].v, type, interfacePath))

\* Named with a continue after the warning of lines 159-162: a declared
\* SensorType that differs from the inferred one skips the device.
NamedStrict(st, file, firstScan, failing, map, type, interfacePath) ==
    IF "SensorType" \notin DOMAIN map THEN Skip(st, file, "noSensorType")
    ELSE IF map["SensorType"].v # SensorTypeName(PathStr(file))
    THEN Skip(st, file, "noSensorType")
    ELSE IF "Name" \notin DOMAIN map THEN Skip(st, file, "noName")
    ELSE IF map["Name"].t # "str" THEN Skip(st, file, "bad_variant_access")
    ELSE Reconcile(st, file, firstScan, failing,
                   Found(map["Name"].v, type, interfacePath))

\* Lines 151-172 for a matched record: map is baseConfigMap, type the
\* interface it was found under, interfacePath the matched record's path.
Named(st, file, firstScan, failing, map, type, interfacePath) ==
    IF "SensorType" \notin DOMAIN map THEN Skip(st, file, "noSensorType")
    ELSE IF "Name" \notin DOMAIN map THEN Skip(st, file, "noName")
    ELSE IF map["Name"].t # "str" THEN Skip(st, file, "bad_variant_access")
    ELSE Reconcile(st, file, firstScan, failing,
                   Found(map["Name"].v, type, interfacePath))

\* Lines 144-149 on the result m of the loop over the records.
Matched(st, file, cfg, firstScan, failing, m) ==
    IF m.st # "match" THEN Skip(st, file, m.st)
    ELSE Named(st, file, firstScan, failing,
               cfg[m.base.k].data[m.base.type], m.base.type, cfg[m.k].path)

\* Lines 70-89 on the identity id of the device.
Resolved(st, file, cfg, firstScan, failing, id) ==
    IF id.st # "ok" THEN Skip(st, file, id.st)
    ELSE Matched(st, file, cfg, firstScan, failing, Match(cfg, id.bus, id.addr))

\* One iteration of the loop over the discovered paths (lines 59-229).
ProcessPath(st, file, cfg, firstScan, failing) ==
    Resolved(st, file, cfg, firstScan, failing, ResolveIdentity(file.link))

\* Aborts with the continue of lines 144-149 written as a return: a device
\* without a matching record ends the loop as well.
AbortsOnNoMatch(outcome) == outcome \in Throws \cup {"noMatch"}

\* An exception ends the loop (and the process); everything else goes on to
\* the next path.
Aborts(outcome) == outcome \in Throws

\* The loop over paths from index i on; steps are the iterations run so far.
RECURSIVE RunFrom(_, _, _, _, _, _, _)
AfterStep(paths, i, cfg, firstScan, failing, steps, step) ==
    IF Aborts(step.outcome)
    THEN [st |-> step.after, steps |-> Append(steps, step), crashed |-> TRUE]
    ELSE RunFrom(step.after, paths, i + 1, cfg, firstScan, failing,
                 Append(steps, step))

RunFrom(st, paths, i, cfg, firstScan, failing, steps) ==
    IF i > Len(paths) THEN [st |-> st, steps |-> steps, crashed |-> FALSE]
    ELSE AfterStep(paths, i, cfg, firstScan, failing, steps,
                   ProcessPath(st, paths[i], cfg, firstScan, failing))

\* A callback that first erases from the table the sensors whose file was
\* not discovered.
RunPassPruning(st, paths, cfg, firstScan, failing) ==
    RunFrom([st EXCEPT !.sensors =
                 [n \in {m \in DOMAIN st.sensors :
                            \E i \in 1..Len(paths) :
                                st.sensors[m].path = PathStr(paths[i])}
                    |-> st.sensors[n]]],
            paths, 1, cfg, firstScan, failing, <<>>)

\* The callback given to GetSensorConfiguration, run on one snapshot.
RunPass(st, paths, cfg, firstScan, failing) ==
    RunFrom(st, paths, 1, cfg, firstScan, failing, <<>>)

\* ------------------------------------------------------------ environments

\* Sensor names and the object paths of their configuration records: the
\* final segment of the path is the name.
nameA == <<"A">>
nameB == <<"B">>
nameXA == <<"x", "A">>
ObjPath(name) == <<"/">> \o name

BaseConfig(bus, addr, name, sensorType) ==
    ("Bus" :> bus) @@ ("Address" :> addr) @@ ("Name" :> name)
        @@ ("SensorType" :> sensorType)

\* A well-formed record of interface type for the device (bus, addr).
Rec(name, type, bus, addr, kind) ==
    Record(ObjPath(name),
           type :> BaseConfig(U64(bus), U64(addr), Str(name), Str(kind)))

Without(map, key) == [k \in DOMAIN map \ {key} |-> map[k]]

\* Device directory names: 1-a is bus 1 address 0xa, and so on.
devA == <<"1", "-", "a">>
devB == <<"1", "-", "b">>
devC == <<"2", "-", "c">>
devD == <<"2", "-", "d">>

recA == Rec(nameA, "DPS310", 1, 10, "temperature")
recB == Rec(nameB, "SI7020", 1, 11, "temperature")
recXA == Rec(nameXA, "DPS310", 1, 10, "temperature")
recA2 == Rec(nameA, "SI7020", 1, 11, "humidity")
\* a second record for the identity of recA, under another name
recDup == Rec(nameB, "SI7020", 1, 10, "humidity")
\* a record that carries no supported interface
recNoTag ==
    Record(ObjPath(<<"T">>),
           "Other" :> BaseConfig(U64(1), U64(11), Str(nameB), Str("temperature")))
recNoTag2 ==
    Record(ObjPath(<<"V">>),
           "Other" :> BaseConfig(U64(1), U64(10), Str(nameA), Str("temperature")))
recNoBus ==
    Record(ObjPath(<<"U">>),
           "DPS310" :> Without(BaseConfig(U64(1), U64(11), Str(nameB), Str("temperature")), "Bus"))
recNoName ==
    Record(ObjPath(nameB),
           "DPS310" :> Without(BaseConfig(U64(1), U64(11), Str(nameB), Str("temperature")), "Name"))
recNoKind ==
    Record(ObjPath(nameXA),
           "DPS310" :> Without(BaseConfig(U64(2), U64(12), Str(nameXA), Str("temperature")), "SensorType"))
recStrBus ==
    Record(ObjPath(nameXA),
           "DPS310" :> BaseConfig(Str(<<"1">>), U64(12), Str(nameXA), Str("temperature")))
recNumName ==
    Record(ObjPath(nameB),
           "DPS310" :> BaseConfig(U64(1), U64(11), U64(7), Str("temperature")))

\* The environments explored: fs is the directory listing at start-up, hot
\* the files that may appear later, cfg the configuration snapshot.
Env(fs, hot, cfg) == [fs |-> fs, hot |-> hot, cfg |-> cfg, gone |-> {}]

\* The environment env in which the device directories and records named in
\* gone may disappear while the daemon runs.
Removable(env, gone) == [env EXCEPT !.gone = gone]

Environments ==
    { \* two sensors, one name a suffix of the other, both discovery orders
      Env(<<File("d0", devA, "temp"), File("d1", devB, "temp")>>, <<>>,
          <<recXA, recA2>>),
      Env(<<File("d1", devB, "temp"), File("d0", devA, "temp")>>, <<>>,
          <<recXA, recA2>>),
      \* two sensors with unrelated names
      Env(<<File("d0", devA, "temp"), File("d1", devB, "humidity")>>, <<>>,
          <<recA, recB>>),
      \* the same, where the device of A and the record of B may disappear
      Removable(Env(<<File("d0", devA, "temp"), File("d1", devB, "humidity")>>,
                    <<>>, <<recA, recB>>),
                {<<"d0">>, ObjPath(nameB)}),
      \* two channels of one device, and a later record of the same identity
      Env(<<File("d0", devA, "pressure"), File("d0", devA, "temp")>>, <<>>,
          <<recA, recDup>>),
      \* devices that are skipped: no hyphen, no digits, no record, a record
      \* without Name, a record without SensorType; records without a
      \* supported interface before and after one that carries one
      Env(<<File("d0", <<"i", "i", "o">>, "temp"),
            File("d1", <<"z", "-", "a">>, "temp"),
            File("d2", devD, "temp"),
            File("d3", devB, "temp"),
            File("d4", devC, "temp"),
            File("d5", devA, "temp")>>, <<>>,
          <<recNoTag, recNoBus, recNoTag2, recNoName, recNoKind, recA>>),
      \* device names std::stoi accepts in part or rejects as out of range
      Env(<<File("d0", <<"1", "z", "-", "a", "z">>, "temp"),
            File("d1", <<"9", "9", "9", "9", "9", "9", "9", "9", "9", "9", "-", "b">>, "temp"),
            File("d2", devB, "temp")>>, <<>>,
          <<recA, recB>>),
      \* property values of the wrong type
      Env(<<File("d0", devA, "temp"), File("d1", devB, "temp")>>, <<>>,
          <<recA, recStrBus, recB>>),
      Env(<<File("d0", devB, "temp"), File("d1", devA, "temp")>>, <<>>,
          <<recA, recNumName>>),
      \* a device that appears after start-up
      Env(<<>>, <<File("d0", devA, "temp")>>, <<recA, recB>>)
    }

\* ------------------------------------------------------------------- state

VARIABLES
    pc,              \* main: "start", "posted" (io.post done, io.run entered), "running", "crashed"
    build,           \* what the build makes of the nullptr entries of sensorTypes
    fsFiles,         \* the files under /sys/bus/iio/devices, in directory order
    hotFiles,        \* files that have not appeared yet
    removable,       \* device directories and record paths that may disappear
    sensorConfigurations, \* what the configuration source answers
    getters,         \* GetSensorConfiguration objects whose callback has not run
    sensors,         \* main's flat_map sensors: name -> shared_ptr<IIOSensor>
    sensorsChanged,  \* main's flat_set sensorsChanged
    timerRemaining,  \* filterTimer: ticks until its expiry time
    timerWaiting,    \* filterTimer: an async_wait is pending on it
    handlerQueue,    \* completed waits whose handler has not run yet
    nextId,          \* identity of the next object constructed
    nNotify,         \* messages delivered so far
    nHotplug,        \* files appeared so far
    nRemoved,        \* files and records disappeared so far
    notified,        \* paths notified since a rescan last built the sensor of their record
    burstFirst,      \* index of the first message of the current burst
    burstPaths,      \* paths of the messages of the current burst
    rescanned,       \* bursts for which a rescan was initiated
    dropped,         \* bursts whose wait ended with an error of the timer
    heldAt,          \* per path: the latest message for it handled while a fetch was outstanding
    builtAt,         \* per name: the epoch of the snapshot its sensor was last constructed from
    lastPass         \* the latest run of the callback: its mode, input and iterations

vars ==
    <<pc, build, removable, fsFiles, hotFiles, sensorConfigurations, getters,
      sensors,
      sensorsChanged, timerRemaining, timerWaiting, handlerQueue, nextId,
      nNotify, nHotplug, nRemoved, notified, burstFirst, burstPaths, rescanned, dropped,
      heldAt, builtAt, lastPass>>

envVars ==
    <<build, removable, fsFiles, hotFiles, sensorConfigurations, nHotplug,
      nRemoved>>
tableVars == <<sensors, nextId, lastPass, builtAt>>
timerVars == <<timerRemaining, timerWaiting, handlerQueue>>
burstVars == <<burstFirst, burstPaths, heldAt>>

NoPass ==
    [n |-> 0, firstScan |-> FALSE, paths |-> <<>>, cfg |-> <<>>,
     failing |-> NoFail, steps |-> <<>>, crashed |-> FALSE,
     before |-> [sensors |-> <<>>, changed |-> {}, nextId |-> 1, notified |-> {}]]

EmptyTable == [n \in {} |-> NullSensor]

Init ==
    /\ pc = "start"
    /\ build \in {"nullFatal", "nullSkipped"}
    /\ \E env \in Environments :
          /\ fsFiles = env.fs
          /\ hotFiles = env.hot
          /\ sensorConfigurations = env.cfg
          /\ removable = env.gone
    /\ getters = <<>>
    /\ sensors = EmptyTable
    /\ sensorsChanged = {}
    /\ timerRemaining = 0
    /\ timerWaiting = FALSE
    /\ handlerQueue = <<>>
    /\ nextId = 1
    /\ nNotify = 0
    /\ nHotplug = 0
    /\ nRemoved = 0
    /\ notified = {}
    /\ burstFirst = 0
    /\ burstPaths = {}
    /\ rescanned = {}
    /\ dropped = {}
    /\ heldAt = [p \in {} |-> 0]
    /\ builtAt = [n \in {} |-> 0]
    /\ lastPass = [NoPass EXCEPT !.before.sensors = EmptyTable]

\* The object paths PropertiesChanged signals are delivered for: the match
\* rules name the supported interfaces (arg0namespace), so they are the
\* paths of the records that carry one.
NotifyPaths ==
    {sensorConfigurations[k].path :
        k \in {j \in 1..Len(sensorConfigurations) :
                  FirstType(sensorConfigurations[j].data) # "none"}}

\* ------------------------------------------------------------------ actions

\* main up to io.run(): the loop over sensorTypes builds a match rule from
\* each entry, and sensorTypesSize - Len(sensorTypes) of them are nullptr.
\* Appending a null char* to a std::string is undefined: the process dies
\* there, or the build lets it pass.
MainCrash ==
    /\ pc = "start"
    /\ Len(sensorTypes) < sensorTypesSize
    /\ build = "nullFatal"
    /\ pc' = "crashed"
    /\ UNCHANGED <<envVars, getters, tableVars, sensorsChanged, timerVars,
                   nNotify, notified, burstVars, rescanned, dropped>>

MainStart ==
    /\ pc = "start"
    /\ Len(sensorTypes) = sensorTypesSize \/ build = "nullSkipped"
    /\ pc' = "posted"
    /\ UNCHANGED <<envVars, getters, tableVars, sensorsChanged, timerVars,
                   nNotify, notified, burstVars, rescanned, dropped>>

\* A getter whose fetch is under way: NotAnswered until the configuration
\* source has answered, then cfg is the snapshot and epoch the number of
\* messages handled before the answer was made.
NotAnswered == 0 - 1

\* createSensors: make a getter with the callback and start its fetch.
createSensors(firstScan) ==
    getters' = Append(getters, [firstScan |-> firstScan, cfg |-> <<>>,
                                epoch |-> NotAnswered])

\* The getters the configuration source has not answered yet.
Awaiting == {i \in 1..Len(getters) : getters[i].epoch = NotAnswered}

\* The configuration source answers the oldest fetch it has not answered:
\* the snapshot is what it holds now.
Reply ==
    /\ pc = "running"
    /\ Awaiting # {}
    /\ \E i \in Awaiting :
          /\ \A j \in Awaiting : i <= j
          /\ getters' = [getters EXCEPT ![i].cfg = sensorConfigurations,
                                        ![i].epoch = nNotify]
    /\ UNCHANGED <<pc, envVars, tableVars, sensorsChanged, timerVars, nNotify,
                   notified, burstVars, rescanned, dropped>>

\* The handler given to io.post: createSensors(..., nullptr).  It is the
\* first handler io.run() runs.
PostedScan ==
    /\ pc = "posted"
    /\ pc' = "running"
    /\ createSensors(TRUE)
    /\ UNCHANGED <<envVars, tableVars, sensorsChanged, timerVars, nNotify,
                   notified, burstVars, rescanned, dropped>>

\* eventHandler on a message that is a method error.
NotificationError ==
    /\ pc = "running"
    /\ nNotify < MaxNotify
    /\ nNotify' = nNotify + 1
    /\ UNCHANGED <<pc, envVars, getters, tableVars, sensorsChanged, timerVars,
                   notified, burstVars, rescanned, dropped>>

\* filterTimer.expires_from_now(seconds(1)) followed by async_wait: a wait
\* still pending completes with operation_aborted; a wait that has already
\* completed stays in the handler queue as it is.
Rearm ==
    /\ timerRemaining' = QuietTicks
    /\ timerWaiting' = TRUE
    /\ handlerQueue' =
          IF timerWaiting
          THEN Append(handlerQueue, [ec |-> "operation_aborted", burst |-> burstFirst,
                                     paths |-> burstPaths])
          ELSE handlerQueue

\* eventHandler on a PropertiesChanged signal for path.  A message handled
\* less than the timer period after the previous one continues its burst.
Notification(path) ==
    /\ pc = "running"
    /\ nNotify < MaxNotify
    /\ nNotify' = nNotify + 1
    /\ sensorsChanged' = sensorsChanged \cup {path}
    /\ Rearm
    /\ notified' = notified \cup {path}
    /\ heldAt' = IF getters # <<>>
                 THEN [p \in DOMAIN heldAt \cup {path} |->
                          IF p = path THEN nNotify + 1 ELSE heldAt[p]]
                 ELSE heldAt
    /\ IF timerRemaining > 0
       THEN /\ burstPaths' = burstPaths \cup {path}
            /\ burstFirst' = burstFirst
       ELSE /\ burstPaths' = {path}
            /\ burstFirst' = nNotify + 1
    /\ UNCHANGED <<pc, envVars, getters, tableVars, rescanned, dropped>>

Notify ==
    \E path \in NotifyPaths : Notification(path)

\* A tick of the clock.
Tick ==
    /\ pc = "running"
    /\ timerRemaining > 0
    /\ timerRemaining' = timerRemaining - 1
    /\ UNCHANGED <<pc, envVars, getters, tableVars, sensorsChanged,
                   timerWaiting, handlerQueue, nNotify, notified, burstVars,
                   rescanned, dropped>>

\* The expiry time is reached with a wait pending: the wait completes and
\* its handler is queued with the given error code.
Complete(ec) ==
    /\ timerWaiting' = FALSE
    /\ handlerQueue' = Append(handlerQueue, [ec |-> ec, burst |-> burstFirst,
                                             paths |-> burstPaths])
    /\ UNCHANGED <<pc, envVars, getters, tableVars, sensorsChanged,
                   timerRemaining, nNotify, notified, burstVars, rescanned, dropped>>

\* The wait completes normally.
TimerExpire ==
    /\ pc = "running"
    /\ timerWaiting
    /\ timerRemaining = 0
    /\ Complete("success")

\* The wait completes with an error of the timer service.
TimerFail ==
    /\ pc = "running"
    /\ timerWaiting
    /\ timerRemaining = 0
    /\ Complete("error")

\* The async_wait handler on operation_aborted.
WaitAborted ==
    /\ pc = "running"
    /\ handlerQueue # <<>>
    /\ Head(handlerQueue).ec = "operation_aborted"
    /\ handlerQueue' = Tail(handlerQueue)
    /\ UNCHANGED <<pc, envVars, getters, tableVars, sensorsChanged,
                   timerRemaining, timerWaiting, nNotify, notified, burstVars,
                   rescanned, dropped>>

\* The handler without the return of lines 268-272: it goes on to
\* createSensors after logging the timer error.
WaitErrorRescans ==
    /\ pc = "running"
    /\ handlerQueue # <<>>
    /\ Head(handlerQueue).ec = "error"
    /\ handlerQueue' = Tail(handlerQueue)
    /\ dropped' = dropped \cup {Head(handlerQueue).burst}
    /\ createSensors(FALSE)
    /\ UNCHANGED <<pc, envVars, tableVars, sensorsChanged, timerRemaining,
                   timerWaiting, nNotify, notified, burstVars, rescanned>>

\* The async_wait handler on another error.
WaitError ==
    /\ pc = "running"
    /\ handlerQueue # <<>>
    /\ Head(handlerQueue).ec = "error"
    /\ handlerQueue' = Tail(handlerQueue)
    /\ dropped' = dropped \cup {Head(handlerQueue).burst}
    /\ UNCHANGED <<pc, envVars, getters, tableVars, sensorsChanged,
                   timerRemaining, timerWaiting, nNotify, notified, burstVars,
                   rescanned>>

\* The async_wait handler on success: createSensors(..., sensorsChanged).
WaitRescan ==
    /\ pc = "running"
    /\ handlerQueue # <<>>
    /\ Head(handlerQueue).ec = "success"
    /\ handlerQueue' = Tail(handlerQueue)
    /\ createSensors(FALSE)
    /\ rescanned' = rescanned \cup {Head(handlerQueue).burst}
    /\ UNCHANGED <<pc, envVars, tableVars, sensorsChanged, timerRemaining,
                   timerWaiting, nNotify, notified, burstVars, dropped>>

\* The state the callback works on.
PassState ==
    [sensors |-> sensors, changed |-> sensorsChanged, nextId |-> nextId,
     notified |-> notified]

\* The names whose sensor the iterations steps constructed.
Constructed(steps) ==
    {steps[i].name : i \in {j \in 1..Len(steps) : steps[j].outcome = "constructed"}}

\* The callback of getter g has run with result r.
Ran(g, paths, failing, r) ==
    /\ sensors' = r.st.sensors
    /\ sensorsChanged' = r.st.changed
    /\ nextId' = r.st.nextId
    /\ notified' = r.st.notified
    /\ builtAt' = [n \in DOMAIN builtAt \cup Constructed(r.steps) |->
                      IF n \in Constructed(r.steps) THEN g.epoch ELSE builtAt[n]]
    /\ lastPass' = [n |-> lastPass.n + 1, firstScan |-> g.firstScan,
                    paths |-> paths, cfg |-> g.cfg,
                    failing |-> failing, steps |-> r.steps,
                    crashed |-> r.crashed, before |-> PassState]
    /\ pc' = IF r.crashed THEN "crashed" ELSE "running"

\* The callback of getter g runs on its snapshot over paths.
CallbackOn(g, paths, failing) ==
    Ran(g, paths, failing, RunPass(PassState, paths, g.cfg, g.firstScan, failing))

\* The callback of the oldest getter runs; failing is the path whose
\* IIOSensor constructor throws, NoFail when none does.
Callback(failing) ==
    /\ pc = "running"
    /\ getters # <<>>
    /\ Head(getters).epoch # NotAnswered
    /\ getters' = Tail(getters)
    /\ CallbackOn(Head(getters), findFiles(fsFiles), failing)
    /\ UNCHANGED <<envVars, timerVars, nNotify, burstVars, rescanned, dropped>>

FetchCallback ==
    /\ pc = "running"
    /\ Callback(NoFail)

\* The same with a constructor that throws for one of the discovered paths.
FetchCallbackCtorThrows ==
    \E k \in 1..Len(fsFiles) :
        /\ Callback(PathStr(fsFiles[k]))
        /\ pc' = "crashed"

\* seq without its i-th element.
RemoveAt(seq, i) == SubSeq(seq, 1, i - 1) \o SubSeq(seq, i + 1, Len(seq))

\* A device file disappears: findFiles no longer returns it.
Unplug ==
    /\ pc = "running"
    /\ nRemoved < MaxRemoval
    /\ \E k \in 1..Len(fsFiles) :
          /\ <<fsFiles[k].dir>> \in removable
          /\ fsFiles' = RemoveAt(fsFiles, k)
    /\ nRemoved' = nRemoved + 1
    /\ UNCHANGED <<pc, build, removable, hotFiles, sensorConfigurations, nHotplug,
                   getters, tableVars, sensorsChanged, timerVars, nNotify,
                   notified, burstVars, rescanned, dropped>>

\* A record disappears from what the configuration source answers.
RecordRemoved ==
    /\ pc = "running"
    /\ nRemoved < MaxRemoval
    /\ \E k \in 1..Len(sensorConfigurations) :
          /\ sensorConfigurations[k].path \in removable
          /\ sensorConfigurations' = RemoveAt(sensorConfigurations, k)
    /\ nRemoved' = nRemoved + 1
    /\ UNCHANGED <<pc, build, removable, fsFiles, hotFiles, nHotplug, getters, tableVars,
                   sensorsChanged, timerVars, nNotify, notified, burstVars,
                   rescanned, dropped>>

\* A device file appears.
Hotplug ==
    /\ pc = "running"
    /\ nHotplug < MaxHotplug
    /\ hotFiles # <<>>
    /\ fsFiles' = Append(fsFiles, Head(hotFiles))
    /\ hotFiles' = Tail(hotFiles)
    /\ nHotplug' = nHotplug + 1
    /\ UNCHANGED <<pc, build, removable, sensorConfigurations, nRemoved, getters,
                   tableVars, sensorsChanged, timerVars, nNotify, notified,
                   burstVars, rescanned, dropped>>

Next ==
    \/ MainCrash
    \/ MainStart
    \/ PostedScan
    \/ Reply
    \/ NotificationError
    \/ Notify
    \/ Tick
    \/ TimerExpire
    \/ TimerFail
    \/ WaitAborted
    \/ WaitError
    \/ WaitRescan
    \/ FetchCallback
    \/ FetchCallbackCtorThrows
    \/ Hotplug
    \/ Unplug
    \/ RecordRemoved

Spec == Init /\ [][Next]_vars

\* ------------------------------------------------------------------ claims

\* The final segment of an object path.
RECURSIVE LastSlash(_, _)
LastSlash(p, i) ==
    IF i = 0 THEN 0 ELSE IF p[i] = "/" THEN i ELSE LastSlash(p, i - 1)

FinalSegment(p) == SubSeq(p, LastSlash(p, Len(p)) + 1, Len(p))

\* The state the latest pass left behind.
PassAfter ==
    IF lastPass.steps = <<>> THEN lastPass.before
    ELSE lastPass.steps[Len(lastPass.steps)].after

\* The names the latest pass matched: those of the iterations that reached
\* the lookup of the name in the table.
PassNames == {lastPass.steps[i].name : i \in 1..Len(lastPass.steps)} \ {<<>>}

IncrementalPass == lastPass.n > 0 /\ ~lastPass.firstScan
FirstPass == lastPass.n > 0 /\ lastPass.firstScan

\* Sensor x was constructed by the latest pass.
BuiltByPass(x) == x # NullSensor /\ x.id >= lastPass.before.nextId

\* C1: after an incremental rescan whose Changed-Path Set held exactly one
\* path, with final segment A, and that matched again the names A and B of
\* two sensors already in the table, the slot of A holds a sensor constructed
\* by that pass and the slot of B holds the instance it held before.  (Stated
\* for the passes that ran to their end, so that a violation does not rest
\* on an exception leaving the callback.)
C1_OnlyChangedRebuilt ==
    \A p \in lastPass.before.changed :
    \A A \in PassNames : \A B \in PassNames :
        ( /\ IncrementalPass
          /\ ~lastPass.crashed
          /\ lastPass.before.changed = {p}
          /\ FinalSegment(p) = A
          /\ A # B
          /\ A \in DOMAIN lastPass.before.sensors
          /\ B \in DOMAIN lastPass.before.sensors
          /\ lastPass.before.sensors[A] # NullSensor
          /\ lastPass.before.sensors[B] # NullSensor )
        => /\ BuiltByPass(PassAfter.sensors[A])
           /\ PassAfter.sensors[B] = lastPass.before.sensors[B]

\* C5: at most one rescan is outstanding: no createSensors call posts a fetch
\* while the callback of an earlier fetch has not run.
C5_OneOutstanding == Len(getters) <= 1

\* The iterations of the latest pass.
Steps == {lastPass.steps[i] : i \in 1..Len(lastPass.steps)}

\* The sensor an iteration found in the slot of its name, NullSensor if none.
Stored(step) ==
    IF step.name \in DOMAIN step.before.sensors
    THEN step.before.sensors[step.name]
    ELSE NullSensor

\* An iteration that emptied and rebuilt (or tried to rebuild) an occupied slot.
Replaces(step) ==
    /\ step.outcome \in {"constructed", "ctorThrow"}
    /\ Stored(step) # NullSensor

\* C2: an incremental rescan replaces a sensor already in the table only if
\* a change notification for the path of that sensor's own configuration
\* record was received after the sensor was constructed (here even: after a
\* rescan last constructed it, which asks less of the code).
C2_ReplacedOnlyIfNotified ==
    \A step \in Steps :
        (IncrementalPass /\ Replaces(step))
            => Stored(step).cfg \in step.before.notified

\* C3: for a burst of notifications, each handled less than the timer period
\* after the one before, one rescan is initiated, by the wait armed by the
\* burst's last notification, and when it is initiated sensorsChanged holds
\* the path of every notification of the burst.
C3_BurstOneRescan ==
    [][WaitRescan =>
          /\ Head(handlerQueue).burst \notin rescanned
          /\ Head(handlerQueue).paths \subseteq sensorsChanged]_vars

\* C4: a rescan is initiated only by a wait that no later notification
\* superseded, so not less than the timer period after the latest
\* notification: when the handler calls createSensors the timer has not been
\* re-armed since the wait completed.
C4_RescanOnlyAfterQuiet ==
    [][WaitRescan => (~timerWaiting /\ timerRemaining = 0)]_vars

\* The device of a discovered file resolves to an identity and matches a
\* record whose base configuration has SensorType and a Name string.
MatchOf(file) ==
    Match(lastPass.cfg, ResolveIdentity(file.link).bus,
          ResolveIdentity(file.link).addr)

MapOf(file) ==
    lastPass.cfg[MatchOf(file).base.k].data[MatchOf(file).base.type]

WellMatched(file) ==
    /\ ResolveIdentity(file.link).st = "ok"
    /\ MatchOf(file).st = "match"
    /\ "SensorType" \in DOMAIN MapOf(file)
    /\ "Name" \in DOMAIN MapOf(file)
    /\ MapOf(file)["Name"].t = "str"

NameOf(file) == MapOf(file)["Name"].v

PassFiles == {lastPass.paths[i] : i \in 1..Len(lastPass.paths)}

\* C6: after a first scan every discovered device that resolves to an
\* identity and matches a record with a Name (and a SensorType) has a sensor
\* constructed by that scan in the slot of its name, whether or not the name
\* was in the table before; and the scan leaves sensorsChanged as it was.
C6_FirstScanBuildsAll ==
    FirstPass =>
        /\ \A file \in PassFiles :
              WellMatched(file) =>
                  /\ NameOf(file) \in DOMAIN PassAfter.sensors
                  /\ BuiltByPass(PassAfter.sensors[NameOf(file)])
        /\ PassAfter.changed = lastPass.before.changed

\* C7: on an incremental rescan an iteration that finds its name in the
\* table, and no entry of sensorsChanged ending with that name, skips the
\* device: the table, the set and the count of constructed objects are
\* after it what they were before it.
C7_UnchangedSkipped ==
    \A step \in Steps :
        ( /\ IncrementalPass
          /\ step.name # <<>>
          /\ Stored(step) # NullSensor
          /\ \A p \in step.before.changed : ~EndsWith(p, step.name) )
        => /\ step.outcome = "unchanged"
           /\ step.after = step.before

\* An incremental pass skipped a device although sensorsChanged was not empty.
C7_Witness ==
    \E step \in Steps :
        /\ IncrementalPass
        /\ step.outcome = "unchanged"
        /\ step.before.changed # {}
        /\ Stored(step) # NullSensor

\* C8: after an incremental rescan every discovered device that matches a
\* record and whose name was not in the table before the pass has a sensor
\* constructed by that pass in the slot of its name.
C8_NewNameBuilt ==
    \A file \in PassFiles :
        ( /\ IncrementalPass
          /\ WellMatched(file)
          /\ NameOf(file) \notin DOMAIN lastPass.before.sensors )
        => /\ NameOf(file) \in DOMAIN PassAfter.sensors
           /\ BuiltByPass(PassAfter.sensors[NameOf(file)])

\* C9: when an iteration of a pass raises an error, the remaining paths of
\* the pass are still processed, the process keeps running, and no slot of
\* the table is left empty.
C9_ErrorContained ==
    (\E step \in Steps : step.outcome \in Throws)
        => /\ Len(lastPass.steps) = Len(lastPass.paths)
           /\ pc = "running"
           /\ \A n \in DOMAIN sensors : sensors[n] # NullSensor

\* The outcomes of the iterations that skip their device before its name is
\* looked up in the table.
SkipKinds == {"badDevice", "invalid_argument", "noMatch", "noSensorType", "noName"}

\* The latest pass run again from the same state without its i-th path.
PassWithout(i) ==
    RunPass(lastPass.before, RemoveAt(lastPass.paths, i), lastPass.cfg,
            lastPass.firstScan, lastPass.failing)

\* C10: an iteration that skips its device (identity not parseable, no
\* record matching, a required field missing) changes neither the table nor
\* sensorsChanged, and the pass treats every other path as the pass without
\* the skipped path does: same iterations, same final state.
C10_SkipIsNeutral ==
    \A i \in 1..Len(lastPass.steps) :
        lastPass.steps[i].outcome \in SkipKinds
            => /\ lastPass.steps[i].after = lastPass.steps[i].before
               /\ PassWithout(i).steps = RemoveAt(lastPass.steps, i)
               /\ PassWithout(i).st = PassAfter
               /\ PassWithout(i).crashed = lastPass.crashed

\* A pass skipped a device and went on to construct the sensor of a later one.
C10_Witness ==
    \E i \in 1..Len(lastPass.steps) : \E j \in 1..Len(lastPass.steps) :
        /\ i < j
        /\ lastPass.steps[i].outcome \in SkipKinds
        /\ lastPass.steps[j].outcome = "constructed"

C12_KeysNeverShrink ==
    [][DOMAIN sensors \subseteq DOMAIN sensors']_vars

\* A rescan has run over a listing that no longer holds the file of a sensor
\* that was in the table before it, and the sensor is still there.
C12_Witness ==
    /\ IncrementalPass
    /\ ~lastPass.crashed
    /\ \E n \in DOMAIN lastPass.before.sensors :
          /\ n \in DOMAIN sensors
          /\ sensors[n] # NullSensor
          /\ sensors[n] = lastPass.before.sensors[n]
          /\ \A i \in 1..Len(lastPass.paths) :
                PathStr(lastPass.paths[i]) # sensors[n].path

\* The same for a sensor whose record is no longer in the snapshot.
C12_WitnessRecord ==
    /\ IncrementalPass
    /\ ~lastPass.crashed
    /\ \E n \in DOMAIN lastPass.before.sensors :
          /\ n \in DOMAIN sensors
          /\ sensors[n] # NullSensor
          /\ \A k \in 1..Len(lastPass.cfg) :
                lastPass.cfg[k].path # sensors[n].cfg

\* The characters of s are all digits of the base, and there is one at least.
AllDigits(s, base) ==
    /\ s # <<>>
    /\ \A i \in 1..Len(s) :
          IF base = 10
          THEN s[i] \in {"0", "1", "2", "3", "4", "5", "6", "7", "8", "9"}
          ELSE s[i] \in {"0", "1", "2", "3", "4", "5", "6", "7", "8", "9",
                         "a", "b", "c", "d", "e", "f",
                         "A", "B", "C", "D", "E", "F"}

\* The number a digit string denotes fits an int.  Counted in digits, leading
\* zeros dropped: fewer than IntMax has in the base (10 in base 10, 8 in base
\* 16); no device explored has a number of exactly that many digits.
RECURSIVE Significant(_)
Significant(s) ==
    IF s # <<>> /\ Head(s) = "0" THEN Significant(Tail(s)) ELSE Len(s)

Representable(s, base) == Significant(s) < (IF base = 10 THEN 10 ELSE 8)

\* A device directory name of the form <decimal bus>-<hexadecimal address>.
WellFormedName(name) ==
    \E h \in 1..Len(name) :
        /\ name[h] = "-"
        /\ AllDigits(SubSeq(name, 1, h - 1), 10)
        /\ AllDigits(SubSeq(name, h + 1, Len(name)), 16)
        /\ Representable(SubSeq(name, 1, h - 1), 10)
        /\ Representable(SubSeq(name, h + 1, Len(name)), 16)

\* C13: an iteration over a path whose device directory name is not of the
\* form <decimal bus>-<hexadecimal address> skips the device and the scan
\* goes on: the iteration ends as a skip, constructs nothing and leaves the
\* table and sensorsChanged as they were.
C13_MalformedNameSkipped ==
    \A step \in Steps :
        ~WellFormedName(step.file.link)
            => /\ step.outcome \in {"badDevice", "invalid_argument"}
               /\ step.after = step.before

\* The supported interface names, and the base-configuration map a record
\* carries under one of them (the records explored carry one at most).
SupportedTags == {sensorTypes[i] : i \in 1..Len(sensorTypes)}

Tagged(rec) == SupportedTags \cap DOMAIN rec.data # {}

OwnMap(rec) == rec.data[CHOOSE t \in SupportedTags : t \in DOMAIN rec.data]

\* The records of the snapshot of the latest pass with the given path.
RecordsAt(path) ==
    {k \in 1..Len(lastPass.cfg) : lastPass.cfg[k].path = path}

\* The outcome of the record loop of the latest pass for a discovered file.
LoopOf(file) ==
    Match(lastPass.cfg, ResolveIdentity(file.link).bus,
          ResolveIdentity(file.link).addr)

\* C14: no sensor is constructed from a record whose base-configuration map
\* lacks Bus, Address or Name: the record loop never stops with a match at a
\* record without Bus or Address, every sensor an iteration constructs comes
\* from a record that has all three, and an iteration whose matched record
\* lacks Name is a skip that leaves the table as it was.
C14_RequiredFields ==
    /\ \A file \in PassFiles :
          (ResolveIdentity(file.link).st = "ok" /\ LoopOf(file).st = "match")
              => /\ Tagged(lastPass.cfg[LoopOf(file).k])
                 /\ {"Bus", "Address"} \subseteq
                        DOMAIN OwnMap(lastPass.cfg[LoopOf(file).k])
    /\ \A step \in Steps :
          /\ step.outcome = "constructed"
                => \A k \in RecordsAt(step.after.sensors[step.name].cfg) :
                      /\ Tagged(lastPass.cfg[k])
                      /\ {"Bus", "Address", "Name"} \subseteq
                             DOMAIN OwnMap(lastPass.cfg[k])
          /\ ( /\ ResolveIdentity(step.file.link).st = "ok"
               /\ LoopOf(step.file).st = "match"
               /\ "Name" \notin DOMAIN OwnMap(lastPass.cfg[LoopOf(step.file).k]) )
                => /\ step.outcome \in {"noName", "noSensorType"}
                   /\ step.after = step.before

\* A pass went by a record without Bus, skipped a device whose record has no
\* Name, and constructed the sensor of another device.
C14_Witness ==
    /\ \E k \in 1..Len(lastPass.cfg) :
          /\ Tagged(lastPass.cfg[k])
          /\ "Bus" \notin DOMAIN OwnMap(lastPass.cfg[k])
    /\ \E step \in Steps : step.outcome = "noName"
    /\ \E step \in Steps : step.outcome = "constructed"

\* The kind a channel word stands for.
KindOfChannel(chan) ==
    CASE chan = "pressure" -> "pressure"
      [] chan = "humidity" -> "humidity"
      [] OTHER -> "temperature"

\* The SensorType the record matched by a well-matched file declares.
DeclaredKind(file) == MapOf(file)["SensorType"].v

\* C15: a constructed sensor has the kind of the channel its path names,
\* whatever SensorType the record declares; and an iteration whose record
\* declares another kind than the path's still reaches the reconciliation
\* of its name, and on a first scan constructs the sensor.
C15_PathKindWins ==
    \A step \in Steps :
        /\ step.outcome = "constructed"
              => step.after.sensors[step.name].kind = KindOfChannel(step.file.chan)
        /\ (WellMatched(step.file) /\ DeclaredKind(step.file) # KindOfChannel(step.file.chan))
              => /\ step.name = NameOf(step.file)
                 /\ (lastPass.firstScan /\ PathStr(step.file) # lastPass.failing)
                        => step.outcome = "constructed"

\* A sensor of a humidity channel was constructed from a record declaring
\* temperature, and one of a temperature channel from a record declaring
\* humidity, in some pass each.
C15_Witness ==
    \E step \in Steps :
        /\ step.outcome = "constructed"
        /\ WellMatched(step.file)
        /\ DeclaredKind(step.file) = "temperature"
        /\ step.after.sensors[step.name].kind = "humidity"

\* Nothing is pending: no fetch outstanding, no wait armed or completed.
Quiescent ==
    /\ pc = "running"
    /\ getters = <<>>
    /\ handlerQueue = <<>>
    /\ ~timerWaiting

\* C16: when nothing is pending any more, a sensor whose record's path was
\* notified while a fetch was outstanding has been constructed from a
\* snapshot the source made after that notification was handled.  (Stated
\* for behaviours without timer errors and disappearing devices, and for
\* paths that end with no other sensor's name.)
C16_NoStaleRebuild ==
    (Quiescent /\ dropped = {} /\ nRemoved = 0)
        => \A n \in DOMAIN sensors :
              ( /\ sensors[n] # NullSensor
                /\ sensors[n].cfg \in DOMAIN heldAt
                /\ \A m \in DOMAIN sensors \ {n} : ~EndsWith(sensors[n].cfg, m) )
              => builtAt[n] >= heldAt[sensors[n].cfg]

\* Record rec carries a base-configuration map under a supported interface
\* whose Bus and Address are the given identity.
Eligible(rec, bus, addr) ==
    /\ Tagged(rec)
    /\ {"Bus", "Address"} \subseteq DOMAIN OwnMap(rec)
    /\ OwnMap(rec)["Bus"] = U64(bus)
    /\ OwnMap(rec)["Address"] = U64(addr)

\* The records of the latest pass's snapshot eligible for a discovered file.
EligibleFor(file) ==
    {k \in 1..Len(lastPass.cfg) :
        Eligible(lastPass.cfg[k], ResolveIdentity(file.link).bus,
                 ResolveIdentity(file.link).addr)}

IsFirstEligible(file, k) ==
    k \in EligibleFor(file) /\ \A j \in EligibleFor(file) : k <= j

\* C17: for a discovered device the record loop stops with a match exactly at
\* the first record, in snapshot order, that itself carries a supported
\* interface whose Bus and Address are the device's identity, and the map it
\* hands on is that record's own; it ends without a match only when there is
\* no such record; and a constructed sensor has the path, the interface and
\* the Name of that first record.
C17_FirstEligibleRecord ==
    /\ \A file \in PassFiles :
          ResolveIdentity(file.link).st = "ok"
              => /\ LoopOf(file).st = "match"
                     => /\ IsFirstEligible(file, LoopOf(file).k)
                        /\ LoopOf(file).base.k = LoopOf(file).k
                 /\ LoopOf(file).st = "noMatch" => EligibleFor(file) = {}
    /\ \A step \in Steps :
          step.outcome = "constructed"
              => \E k \in EligibleFor(step.file) :
                    /\ IsFirstEligible(step.file, k)
                    /\ step.after.sensors[step.name].cfg = lastPass.cfg[k].path
                    /\ step.after.sensors[step.name].type \in DOMAIN lastPass.cfg[k].data
                    /\ OwnMap(lastPass.cfg[k])["Name"] = Str(step.name)

\* A sensor was constructed from a record that comes after a record without
\* a supported interface, which comes after a record with one.
C17_Witness ==
    \E step \in Steps :
        /\ step.outcome = "constructed"
        /\ \E j \in 1..(LoopOf(step.file).k - 1) :
              /\ ~Tagged(lastPass.cfg[j])
              /\ \E i \in 1..(j - 1) : Tagged(lastPass.cfg[i])

\* A sensor was constructed for a device that two records are eligible for.
C17_WitnessTie ==
    \E step \in Steps :
        /\ step.outcome = "constructed"
        /\ Cardinality(EligibleFor(step.file)) = 2

\* Position of the first event e in the events of an iteration, 0 if none.
EventAt(ev, e) ==
    IF \E i \in 1..Len(ev) : ev[i] = e
    THEN CHOOSE i \in 1..Len(ev) : ev[i] = e /\ \A j \in 1..(i - 1) : ev[j] # e
    ELSE 0

\* C18: in an iteration that replaces the sensor of a name, on a first scan
\* as on an incremental rescan, the previous instance is released before the
\* new one is constructed, so the two are never alive together.
C18_ReleaseBeforeConstruct ==
    \A step \in Steps :
        (step.outcome = "constructed" /\ Stored(step) # NullSensor)
            => /\ EventAt(step.ev, "release") > 0
               /\ EventAt(step.ev, "release") < EventAt(step.ev, "construct")

\* The discovered files of the latest pass that resolve to the name n.
FilesNamed(n) == {file \in PassFiles : WellMatched(file) /\ NameOf(file) = n}

\* The table a first scan leaves when run from the state, over the paths and
\* on the snapshot of the latest pass.
AsFirstScan ==
    RunPass(lastPass.before, lastPass.paths, lastPass.cfg, TRUE,
            lastPass.failing).st.sensors

\* C19: when two discovered paths resolve to one name, an incremental rescan
\* whose sensorsChanged holds one entry ending with the name leaves in the
\* slot of the name the sensor of the same path as a first scan does.
C19_SamePathBothModes ==
    \A n \in PassNames :
        ( /\ IncrementalPass /\ ~lastPass.crashed
          /\ Cardinality(FilesNamed(n)) = 2
          /\ n \in DOMAIN lastPass.before.sensors
          /\ lastPass.before.sensors[n] # NullSensor
          /\ Cardinality({p \in lastPass.before.changed : EndsWith(p, n)}) = 1 )
        => PassAfter.sensors[n].path = AsFirstScan[n].path

\* The latest burst of notifications has had no rescan initiated yet, and no
\* wait has ended with a timer error.
RescanOwed ==
    /\ burstFirst > 0
    /\ burstFirst \notin rescanned
    /\ dropped = {}

\* The daemon can take the next step towards the rescan: the clock runs
\* towards the expiry, the wait completes, or the handler of a completed
\* wait runs.
TimerCanProceed ==
    ENABLED (Tick \/ TimerExpire \/ WaitAborted \/ WaitError \/ WaitRescan)

\* C20: as long as the latest handled notification is owed a rescan (and the
\* timer has not failed), the daemon is able to go on towards initiating it;
\* it is never left unable to start the rescan it owes.
C20_RescanFollows ==
    RescanOwed => TimerCanProceed

====
